---- MODULE Spec2Model ----
(***************************************************************************)
(* Model of goit-pycore-hw-08.py: the contact Record, the AddressBook      *)
(* (an insertion-ordered mapping), the upcoming-birthdays query and the    *)
(* command loop with its input_error wrapper.                              *)
(*                                                                         *)
(* A Python str is a sequence of one-character strings; an object is a     *)
(* record of its fields, and None is a record of its own.  A function that *)
(* may raise returns a record whose field exc names the exception class    *)
(* ("none" when it returns normally).                                      *)
(***************************************************************************)
EXTENDS Integers, Sequences, FiniteSets, TLC

\* The fields of the records below and what each holds; every record lists
\* its fields in this order.
Fields ==
    [args |-> "the words of a line after the command word",
     at |-> "the position of a Phone object in record.phones",
     birthday |-> "record.birthday, and an entry's reported date",
     cmd |-> "the call or command that ran last",
     command |-> "the command word, lowercased",
     data |-> "AddressBook.data as a handler left it",
     date |-> "a datetime.date",
     day |-> "date.day",
     days |-> "the horizon the query was asked for",
     exc |-> "the class of the exception raised, or none",
     key |-> "a key of AddressBook.data",
     month |-> "date.month",
     name |-> "record.name.value",
     new |-> "edit_phone's new_phone",
     none |-> "None",
     old |-> "edit_phone's old_phone",
     phone |-> "the phone a call was given",
     phones |-> "the values of record.phones",
     pickle |-> "the book a file holds",
     rec |-> "a Record object",
     ret |-> "what a call returned",
     value |-> "Field.value",
     year |-> "date.year"]

VARIABLES
    book,      \* the AddressBook's data: entries [key, rec] in dict order
    disk,      \* what address_book.pkl holds (None: no such file)
    today,     \* what date.today() returns
    elapsed,   \* days the clock has advanced since the start
    running,   \* main's loop has not ended
    out,       \* the last call or command and what it returned
    inserted   \* history: the present keys, in the order of their insertion

vars == <<book, disk, today, elapsed, running, out, inserted>>

None == [none |-> TRUE]

\* ------------------------------------------------------------------ bounds

\* Most phones a record may hold before the model stops adding to it.
MaxPhones == 2

\* The same, for the records of a session of the command loop.
MaxSessionPhones == 1

\* Most days the clock advances after the start of a run.
MaxDayPasses == 1

\* ----------------------------------------------------------------- strings

AsciiDigit == {"0", "1", "2", "3", "4", "5", "6", "7", "8", "9"}

\* A decimal digit outside ASCII (ARABIC-INDIC DIGIT THREE), written by name.
ArabicThree == "U+0663"

\* re's \d on a str pattern: every Unicode decimal digit.
UnicodeDigit == AsciiDigit \cup {ArabicThree}

DigitValue(c) ==
    CASE c = "0" -> 0 [] c = "1" -> 1 [] c = "2" -> 2 [] c = "3" -> 3
      [] c = "4" -> 4 [] c = "5" -> 5 [] c = "6" -> 6 [] c = "7" -> 7
      [] c = "8" -> 8 [] c = "9" -> 9 [] c = ArabicThree -> 3

RECURSIVE IntOf(_)
\* int(s) for a string of digits.
IntOf(s) ==
    IF s = <<>> THEN 0
    ELSE 10 * IntOf(SubSeq(s, 1, Len(s) - 1)) + DigitValue(s[Len(s)])

AllIn(s, chars) == \A i \in 1..Len(s) : s[i] \in chars

\* re.match(r'^\d{10}$', value): ten digits, then the end of the string or a
\* single newline that ends the string ($ matches before a final newline).
PhonePatternMatches(value) ==
    \/ Len(value) = 10 /\ AllIn(value, UnicodeDigit)
    \/ /\ Len(value) = 11
       /\ AllIn(SubSeq(value, 1, 10), UnicodeDigit)
       /\ value[11] = "\n"

\* ------------------------------------------------------------------- dates

IsLeap(y) == y % 4 = 0 /\ (y % 100 # 0 \/ y % 400 = 0)

DaysInMonth(y, m) ==
    CASE m \in {1, 3, 5, 7, 8, 10, 12} -> 31
      [] m \in {4, 6, 9, 11} -> 30
      [] OTHER -> IF IsLeap(y) THEN 29 ELSE 28

DaysBeforeYear(y) ==
    (y - 1) * 365 + (y - 1) \div 4 - (y - 1) \div 100 + (y - 1) \div 400

RECURSIVE DaysBeforeMonth(_, _)
DaysBeforeMonth(y, m) ==
    IF m = 1 THEN 0 ELSE DaysBeforeMonth(y, m - 1) + DaysInMonth(y, m - 1)

\* date(y, m, d): the constructor's range check.
ValidDate(y, m, d) ==
    /\ y \in 1..9999
    /\ m \in 1..12
    /\ d \in 1..DaysInMonth(y, m)

MkDate(y, m, d) == [day |-> d, month |-> m, year |-> y]

\* date.toordinal(): 1 January of year 1 is day 1.
ToOrdinal(dt) ==
    DaysBeforeYear(dt.year) + DaysBeforeMonth(dt.year, dt.month) + dt.day

\* The year holding day n, by 400-, 100-, 4- and 1-year cycles.
YearOfOrdinal(n) ==
    LET n0 == n - 1
        n400 == n0 \div 146097
        r400 == n0 % 146097
        n100 == r400 \div 36524
        r100 == r400 % 36524
        n4 == r100 \div 1461
        r4 == r100 % 1461
        n1 == r4 \div 365
        y == n400 * 400 + 1 + n100 * 100 + n4 * 4 + n1
    IN  IF n1 = 4 \/ n100 = 4 THEN y - 1 ELSE y

RECURSIVE MonthOfOrdinal(_, _, _)
MonthOfOrdinal(n, y, m) ==
    IF n <= DaysBeforeMonth(y, m) + DaysInMonth(y, m) THEN m
    ELSE MonthOfOrdinal(n, y, m + 1)

\* date.fromordinal(n)
FromOrdinal(n) ==
    LET yy == YearOfOrdinal(n)
        mm == MonthOfOrdinal(n - DaysBeforeYear(yy), yy, 1)
    IN  MkDate(yy, mm, n - DaysBeforeYear(yy) - DaysBeforeMonth(yy, mm))

\* date.weekday(): Monday is 0, Sunday is 6.
Weekday(dt) == (ToOrdinal(dt) + 6) % 7

\* date + timedelta(days=k).
PlusDays(dt, k) == FromOrdinal(ToOrdinal(dt) + k)

\* (a - b).days
DaysBetween(a, b) == ToOrdinal(a) - ToOrdinal(b)

DateLess(a, b) == ToOrdinal(a) < ToOrdinal(b)

\* --------------------------------------------------------------- strptime

RECURSIVE Split(_, _)
\* value.split(sep) for a one-character separator.
Split(s, sep) ==
    IF \A i \in 1..Len(s) : s[i] # sep THEN <<s>>
    ELSE LET k == CHOOSE i \in 1..Len(s) :
                      s[i] = sep /\ \A j \in 1..(i - 1) : s[j] # sep
         IN  <<SubSeq(s, 1, k - 1)>> \o Split(SubSeq(s, k + 1, Len(s)), sep)

\* %d: 3[0-1] | [1-2]\d | 0[1-9] | [1-9] | space then [1-9]
DayDirective(f) ==
    \/ Len(f) = 2 /\ f[1] = "3" /\ f[2] \in {"0", "1"}
    \/ Len(f) = 2 /\ f[1] \in {"1", "2"} /\ f[2] \in UnicodeDigit
    \/ Len(f) = 2 /\ f[1] \in {"0", " "} /\ f[2] \in AsciiDigit \ {"0"}
    \/ Len(f) = 1 /\ f[1] \in AsciiDigit \ {"0"}

\* %m: 1[0-2] | 0[1-9] | [1-9]
MonthDirective(f) ==
    \/ Len(f) = 2 /\ f[1] = "1" /\ f[2] \in {"0", "1", "2"}
    \/ Len(f) = 2 /\ f[1] = "0" /\ f[2] \in AsciiDigit \ {"0"}
    \/ Len(f) = 1 /\ f[1] \in AsciiDigit \ {"0"}

\* %Y: \d\d\d\d
YearDirective(f) == Len(f) = 4 /\ AllIn(f, UnicodeDigit)

Strip(f) == IF Len(f) = 2 /\ f[1] = " " THEN <<f[2]>> ELSE f

\* datetime.strptime(value, "%d.%m.%Y").date(): ValueError unless the whole
\* string matches the format and names a real calendar date.
strptime_fields(f) ==
    IF /\ Len(f) = 3
       /\ DayDirective(f[1]) /\ MonthDirective(f[2]) /\ YearDirective(f[3])
       /\ ValidDate(IntOf(f[3]), IntOf(f[2]), IntOf(Strip(f[1])))
    THEN [date |-> MkDate(IntOf(f[3]), IntOf(f[2]), IntOf(Strip(f[1]))),
          exc |-> "none"]
    ELSE [exc |-> "ValueError"]

strptime(value) == strptime_fields(Split(value, "."))

RECURSIVE Pad(_, _)
Pad(s, width) == IF Len(s) >= width THEN s ELSE Pad(<<"0">> \o s, width)

DigitChar(d) ==
    CASE d = 0 -> "0" [] d = 1 -> "1" [] d = 2 -> "2" [] d = 3 -> "3"
      [] d = 4 -> "4" [] d = 5 -> "5" [] d = 6 -> "6" [] d = 7 -> "7"
      [] d = 8 -> "8" [] d = 9 -> "9"

RECURSIVE StrOf(_)
\* str(n) for n >= 0.
StrOf(n) == IF n < 10 THEN <<DigitChar(n)>>
            ELSE StrOf(n \div 10) \o <<DigitChar(n % 10)>>

\* date.strftime("%Y-%m-%d")
strftime(dt) ==
    Pad(StrOf(dt.year), 4) \o <<"-">> \o Pad(StrOf(dt.month), 2)
        \o <<"-">> \o Pad(StrOf(dt.day), 2)

\* A replace that turns a day missing from year y into the month's last day.
ReplaceYearClamped(dt, y) ==
    [date |-> MkDate(y, dt.month,
                     IF dt.day > DaysInMonth(y, dt.month)
                     THEN DaysInMonth(y, dt.month) ELSE dt.day),
     exc |-> "none"]

\* date.replace(year=y): ValueError when the day does not exist in year y.
ReplaceYear(dt, y) ==
    IF ValidDate(y, dt.month, dt.day)
    THEN [date |-> MkDate(y, dt.month, dt.day), exc |-> "none"]
    ELSE [exc |-> "ValueError"]

\* ------------------------------------------------------------------ fields

\* Name(value): the stored value, or ValueError for an empty one.
Name(value) ==
    IF value = <<>> THEN [exc |-> "ValueError"]
    ELSE [exc |-> "none", value |-> value]

\* Phone(value)
Phone(value) ==
    IF ~PhonePatternMatches(value) THEN [exc |-> "ValueError"]
    ELSE [exc |-> "none", value |-> value]

\* Birthday(value): keeps the string as given once strptime accepts it.
Birthday(value) ==
    IF strptime(value).exc # "none" THEN [exc |-> "ValueError"]
    ELSE [exc |-> "none", value |-> value]

\* ------------------------------------------------------------------ Record

\* Record(name, birthday=None); the empty string stands for every falsy
\* birthday argument, the default None included.  name is the Name's value,
\* phones the values of the Phone objects, birthday a Birthday object or None.
Record(name, birthday) ==
    IF Name(name).exc # "none" THEN [exc |-> "ValueError"]
    ELSE IF birthday # <<>> /\ Birthday(birthday).exc # "none"
    THEN [exc |-> "ValueError"]
    ELSE [exc |-> "none",
          rec |-> [birthday |-> IF birthday = <<>> THEN None
                                ELSE [value |-> Birthday(birthday).value],
                   name |-> Name(name).value,
                   phones |-> <<>>]]

\* Record.add_phone: the Phone is built (and may raise) before the append.
add_phone(rec, phone) ==
    IF Phone(phone).exc # "none" THEN [exc |-> Phone(phone).exc, rec |-> rec]
    ELSE [exc |-> "none",
          rec |-> [rec EXCEPT !.phones = Append(@, Phone(phone).value)]]

\* Record.find_phone: the first stored Phone whose value equals phone (the
\* object is named by its position in the list), or None.
find_phone(rec, phone) ==
    IF \E i \in 1..Len(rec.phones) : rec.phones[i] = phone
    THEN LET k == CHOOSE i \in 1..Len(rec.phones) :
                      /\ rec.phones[i] = phone
                      /\ \A j \in 1..(i - 1) : rec.phones[j] # phone
         IN  [at |-> k, value |-> rec.phones[k]]
    ELSE None

RemoveAt(s, k) == SubSeq(s, 1, k - 1) \o SubSeq(s, k + 1, Len(s))

\* A remove_phone that drops every stored phone equal to phone.
remove_phone_every(rec, phone) ==
    [rec |-> [rec EXCEPT !.phones = SelectSeq(@, LAMBDA p : p # phone)],
     ret |-> find_phone(rec, phone) # None]

\* Record.remove_phone: list.remove of the object find_phone returned.
remove_phone(rec, phone) ==
    LET phone_obj == find_phone(rec, phone) IN
    IF phone_obj # None
    THEN [rec |-> [rec EXCEPT !.phones = RemoveAt(@, phone_obj.at)],
          ret |-> TRUE]
    ELSE [rec |-> rec, ret |-> FALSE]

\* An edit_phone that appends the new phone and leaves the old one.
edit_phone_keeps_old(rec, old_phone, new_phone) ==
    IF find_phone(rec, old_phone) = None
    THEN [exc |-> "ValueError", rec |-> rec]
    ELSE add_phone(rec, new_phone)

\* Record.edit_phone
edit_phone(rec, old_phone, new_phone) ==
    IF find_phone(rec, old_phone) = None
    THEN [exc |-> "ValueError", rec |-> rec]
    ELSE LET added == add_phone(rec, new_phone) IN
         IF added.exc # "none" THEN [exc |-> added.exc, rec |-> rec]
         ELSE [exc |-> "none", rec |-> remove_phone(added.rec, old_phone).rec]

\* Record.add_birthday
rec_add_birthday(rec, birthday) ==
    IF Birthday(birthday).exc # "none"
    THEN [exc |-> Birthday(birthday).exc, rec |-> rec]
    ELSE [exc |-> "none",
          rec |-> [rec EXCEPT !.birthday = [value |-> Birthday(birthday).value]]]

RECURSIVE Join(_, _)
\* sep.join(parts)
Join(parts, sep) ==
    IF parts = <<>> THEN <<>>
    ELSE IF Len(parts) = 1 THEN parts[1]
    ELSE parts[1] \o sep \o Join(Tail(parts), sep)

Chars(str) == <<str>>

\* Record.__str__ (a literal piece of text stands as one element)
record_str(rec) ==
    Chars("Contact name: ") \o rec.name \o Chars(", phones: ")
        \o Join(rec.phones, <<";", " ">>)

\* ------------------------------------------------------------- AddressBook
\* self.data is a dict: an entry per key, in the order the keys were first
\* inserted; each entry is [key, rec].

HasKey(data, key) == \E i \in 1..Len(data) : data[i].key = key

KeyIndex(data, key) == CHOOSE i \in 1..Len(data) : data[i].key = key

\* An assignment that moves the key it overwrites to the end.
DictSetLast(data, key, rec) ==
    Append(SelectSeq(data, LAMBDA e : e.key # key), [key |-> key, rec |-> rec])

\* data[key] = rec: an existing key keeps its place, a new key goes last.
DictSet(data, key, rec) ==
    IF HasKey(data, key)
    THEN [data EXCEPT ![KeyIndex(data, key)] = [key |-> key, rec |-> rec]]
    ELSE Append(data, [key |-> key, rec |-> rec])

\* del data[key]
DictDel(data, key) == RemoveAt(data, KeyIndex(data, key))

\* An add_record keyed by str(record).
add_record_by_str(data, rec) == DictSet(data, record_str(rec), rec)

\* AddressBook.add_record
add_record(data, rec) == DictSet(data, rec.name, rec)

\* AddressBook.delete
delete(data, name) ==
    IF HasKey(data, name) THEN [data |-> DictDel(data, name), ret |-> TRUE]
    ELSE [data |-> data, ret |-> FALSE]

\* AddressBook.find
find(data, name) ==
    IF HasKey(data, name) THEN data[KeyIndex(data, name)].rec ELSE None

\* A record object held by the book is changed in place: the entry that
\* holds the object old now shows it as rec.
Mutate(data, old, rec) ==
    [data EXCEPT ![CHOOSE i \in 1..Len(data) : data[i].rec = old].rec = rec]

\* A _find_next_weekday that moves Saturday by one day only.
find_next_weekday_one(start_date) ==
    PlusDays(start_date, IF Weekday(start_date) >= 5 THEN 1 ELSE 0)

\* AddressBook._find_next_weekday
find_next_weekday(start_date) ==
    LET days_ahead == IF Weekday(start_date) = 5 THEN 2
                      ELSE IF Weekday(start_date) = 6 THEN 1
                      ELSE 0
    IN  PlusDays(start_date, days_ahead)

\* AddressBook._adjust_for_weekend
adjust_for_weekend(birthday) ==
    IF Weekday(birthday) >= 5 THEN find_next_weekday(birthday) ELSE birthday

\* Lines 108-109: next year's date when this year's is already past.
next_if_past(birth_day, first, td) ==
    IF first.exc # "none" THEN [exc |-> first.exc]
    ELSE IF DateLess(first.date, td) THEN ReplaceYear(birth_day, td.year + 1)
    ELSE first

\* Lines 106-109 for a parsed birthday.
candidate_of(parsed, td) ==
    IF parsed.exc # "none" THEN [exc |-> parsed.exc]
    ELSE next_if_past(parsed.date, ReplaceYear(parsed.date, td.year), td)

\* The candidate date of one birthday: this year's, or next year's when this
\* year's is already past; either replace may raise.
birthday_this_year(value, td) == candidate_of(strptime(value), td)

\* A window test that leaves out the last day of the horizon.
with_entry_short(record, c, td, days, upcoming_birthdays) ==
    IF 0 <= DaysBetween(c.date, td) /\ DaysBetween(c.date, td) < days
    THEN Append(upcoming_birthdays,
                [birthday |-> strftime(adjust_for_weekend(c.date)),
                 name |-> record.name])
    ELSE upcoming_birthdays

\* Lines 111-116 for one record and its candidate c: the list with the
\* record's entry when the candidate is in the window.
with_entry(record, c, td, days, upcoming_birthdays) ==
    IF 0 <= DaysBetween(c.date, td) /\ DaysBetween(c.date, td) <= days
    THEN Append(upcoming_birthdays,
                [birthday |-> strftime(adjust_for_weekend(c.date)),
                 name |-> record.name])
    ELSE upcoming_birthdays

RECURSIVE upcoming_from(_, _, _, _, _)
RECURSIVE upcoming_step(_, _, _, _, _, _)
\* The loop of get_upcoming_birthdays from entry i on, with the list so far.
upcoming_from(data, i, td, days, upcoming_birthdays) ==
    IF i > Len(data) THEN [exc |-> "none", ret |-> upcoming_birthdays]
    ELSE IF data[i].rec.birthday = None
    THEN upcoming_from(data, i + 1, td, days, upcoming_birthdays)
    ELSE upcoming_step(data, i, td, days, upcoming_birthdays,
                       birthday_this_year(data[i].rec.birthday.value, td))

\* One turn of the loop for a record with a birthday, c its candidate: an
\* exception ends the query with nothing returned.
upcoming_step(data, i, td, days, upcoming_birthdays, c) ==
    IF c.exc # "none" THEN [exc |-> c.exc]
    ELSE upcoming_from(data, i + 1, td, days,
                       with_entry(data[i].rec, c, td, days, upcoming_birthdays))

\* AddressBook.get_upcoming_birthdays(days), with td what date.today() gives.
get_upcoming_birthdays(data, td, days) == upcoming_from(data, 1, td, days, <<>>)

\* ---------------------------------------------------------------- commands
\* A handler's body returns [exc, ret, data]: the exception it raised or
\* "none", the message it returned, and the book as the body left it.

DefaultDays == 7

Returned(msg, data) == [data |-> data, exc |-> "none", ret |-> msg]

Raised(e, data) == [data |-> data, exc |-> e, ret |-> <<>>]

\* input_error: every exception of the body becomes a message.
input_error(r) ==
    CASE r.exc = "none" -> r
      [] r.exc = "ValueError" ->
            Returned(Chars("Give me name and phone please."), r.data)
      [] r.exc = "KeyError" -> Returned(Chars("Contact doesn't exist."), r.data)
      [] r.exc = "IndexError" ->
            Returned(Chars("Enter the argument for the command"), r.data)
      [] r.exc = "AttributeError" -> Returned(Chars("Invalid contact."), r.data)
      [] OTHER -> Returned(Chars("An unexpected error: ") \o Chars(r.exc), r.data)

\* add_contact from "if phone:" on, with record the object in hand.
add_contact_phone(data, record, phone, message) ==
    IF phone = <<>> THEN Returned(message, data)
    ELSE LET added == add_phone(record, phone) IN
         IF added.exc # "none" THEN Raised(added.exc, data)
         ELSE Returned(message, Mutate(data, record, added.rec))

add_contact_body(args, data) ==
    IF Len(args) < 2 THEN Raised("ValueError", data)
    ELSE LET name == args[1]
             phone == args[2]
             record == find(data, name)
         IN  IF record = None
             THEN LET made == Record(name, <<>>) IN
                  IF made.exc # "none" THEN Raised(made.exc, data)
                  ELSE add_contact_phone(add_record(data, made.rec), made.rec,
                                         phone, Chars("Contact added."))
             ELSE add_contact_phone(data, record, phone,
                                    Chars("Contact updated."))

add_contact(args, data) == input_error(add_contact_body(args, data))

change_phone_body(args, data) ==
    IF Len(args) # 3 THEN Raised("ValueError", data)
    ELSE LET name == args[1]
             old_phone == args[2]
             new_phone == args[3]
             record == find(data, name)
         IN  IF record = None THEN Raised("AttributeError", data)
             ELSE LET edited == edit_phone(record, old_phone, new_phone) IN
                  IF edited.exc # "none" THEN Raised(edited.exc, data)
                  ELSE Returned(Chars("Phone number for ") \o name
                                    \o Chars(" changed from ") \o old_phone
                                    \o Chars(" to ") \o new_phone,
                                Mutate(data, record, edited.rec))

change_phone(args, data) == input_error(change_phone_body(args, data))

show_phone_body(args, data) ==
    IF Len(args) = 0 THEN Raised("IndexError", data)
    ELSE LET name == args[1]
             record == find(data, name)
         IN  IF record = None THEN Raised("AttributeError", data)
             ELSE Returned(name \o Chars("'s phones: ")
                               \o Join(record.phones, <<",", " ">>), data)

show_phone(args, data) == input_error(show_phone_body(args, data))

all_contacts_body(args, data) ==
    IF data = <<>> THEN Returned(Chars("No contacts available."), data)
    ELSE Returned(Join([i \in 1..Len(data) |-> record_str(data[i].rec)],
                       <<"\n">>), data)

all_contacts(args, data) == input_error(all_contacts_body(args, data))

add_birthday_body(args, data) ==
    IF Len(args) # 2 THEN Raised("ValueError", data)
    ELSE LET name == args[1]
             birthday == args[2]
             record == find(data, name)
         IN  IF record = None
             THEN Returned(Chars("Contact doesn't exist."), data)
             ELSE LET set == rec_add_birthday(record, birthday) IN
                  IF set.exc # "none" THEN Raised(set.exc, data)
                  ELSE Returned(Chars("Birthday ") \o birthday
                                    \o Chars(" added for ") \o name,
                                Mutate(data, record, set.rec))

add_birthday(args, data) == input_error(add_birthday_body(args, data))

show_birthday_body(args, data) ==
    IF Len(args) = 0 THEN Raised("IndexError", data)
    ELSE LET name == args[1]
             record == find(data, name)
         IN  IF record = None THEN Raised("AttributeError", data)
             ELSE IF record.birthday = None THEN Raised("AttributeError", data)
             ELSE Returned(name \o Chars("'s birthday is on ")
                               \o record.birthday.value, data)

\* show_birthday without its decorator.
show_birthday_bare(args, data) == show_birthday_body(args, data)

show_birthday(args, data) == input_error(show_birthday_body(args, data))

\* Lines 196-198 for the query's result.
birthdays_message(upcoming, data) ==
    IF upcoming.exc # "none" THEN Raised(upcoming.exc, data)
    ELSE IF upcoming.ret = <<>>
    THEN Returned(Chars("No upcoming birthdays in the next week."), data)
    ELSE Returned(Join([i \in 1..Len(upcoming.ret) |->
                          upcoming.ret[i].name \o Chars(" has a birthday on ")
                              \o upcoming.ret[i].birthday],
                       <<"\n">>), data)

birthdays_body(args, data, td) ==
    birthdays_message(get_upcoming_birthdays(data, td, DefaultDays), data)

birthdays(args, data, td) == input_error(birthdays_body(args, data, td))

\* str.lower() of the command word (a word is one token here).
Lower(word) ==
    CASE word = "ADD" -> "add"
      [] word = "Exit" -> "exit"
      [] OTHER -> word

\* parse_input
parse_input(user_input) ==
    [args |-> Tail(user_input), command |-> Lower(user_input[1])]

\* The branches of main's loop other than close and exit.
Dispatch(command, args, data, td) ==
    CASE command = "hello" -> Returned(Chars("How can I help you?"), data)
      [] command = "add" -> add_contact(args, data)
      [] command = "change" -> change_phone(args, data)
      [] command = "phone" -> show_phone(args, data)
      [] command = "all" -> all_contacts(args, data)
      [] command = "add-birthday" -> add_birthday(args, data)
      [] command = "show-birthday" -> show_birthday(args, data)
      [] command = "birthdays" -> birthdays(args, data, td)
      [] OTHER -> Returned(Chars("Invalid command."), data)

\* save_data
save_data(data) == [pickle |-> data]

\* load_data
load_data(file) == IF file = None THEN <<>> ELSE file.pickle

\* ------------------------------------------------------------------ inputs

Ann == <<"A", "n", "n">>
Bob == <<"B", "o", "b">>
Names == {Ann, Bob}

PhoneA == <<"0", "5", "0", "1", "2", "3", "4", "5", "6", "7">>
PhoneB == <<"0", "6", "7", "7", "6", "5", "4", "3", "2", "1">>
PhoneShort == SubSeq(PhoneA, 1, 9)
PhoneLong == PhoneA \o <<"0">>
PhoneLetter == [PhoneA EXCEPT ![4] = "x"]
PhoneNewline == PhoneA \o <<"\n">>
PhoneArabic == [PhoneB EXCEPT ![10] = ArabicThree]

DateLeapDay == <<"2", "9", ".", "0", "2", ".", "2", "0", "0", "0">>
DateJune12 == <<"1", "2", ".", "0", "6", ".", "1", "9", "9", "0">>
DateFeb31 == <<"3", "1", ".", "0", "2", ".", "2", "0", "2", "0">>

\* The keys of the book, in dict order.
Keys(data) == [i \in 1..Len(data) |-> data[i].key]

SelectSeq2(s, keep) ==
    LET F[i \in 0..Len(s)] ==
            IF i = 0 THEN <<>>
            ELSE IF s[i] \in keep THEN Append(F[i - 1], s[i]) ELSE F[i - 1]
    IN  F[Len(s)]

\* The insertion history after a step that turned the book into data: keys
\* that are gone leave it, and a key that is new goes last.
History(hist, data) ==
    LET present == {data[i].key : i \in 1..Len(data)}
        old == {hist[i] : i \in 1..Len(hist)}
        kept == SelectSeq2(hist, present)
        new == present \ old
    IN  IF new = {} THEN kept ELSE Append(kept, CHOOSE k \in new : TRUE)

WithinBounds(data, most) ==
    \A i \in 1..Len(data) : Len(data[i].rec.phones) <= most

\* --------------------------------------------------------------- main loop

SessionNames == Names
SessionPhones == {PhoneA, PhoneB, PhoneShort}
SessionDates == {DateLeapDay, DateFeb31}

\* Argument lists of every length from none to three.
SessionArgs ==
    {<<>>}
      \cup {<<n>> : n \in SessionNames}
      \cup {<<n, t>> : n \in SessionNames, t \in SessionPhones \cup SessionDates}
      \cup {<<n, PhoneA, p>> : n \in SessionNames, p \in {PhoneB, PhoneShort}}

\* The argument lists tried with a command word: all of them for a command
\* that reads more than its first argument, and for the others one list of
\* each length, since they read args[0] at most.
ArgsFor(word) ==
    IF word \in {"add", "change", "add-birthday"} THEN SessionArgs
    ELSE IF word \in {"phone", "show-birthday"}
    THEN {a \in SessionArgs : Len(a) < 2 \/ a[2] = PhoneA}
    ELSE {a \in SessionArgs : a = SubSeq(<<Ann, PhoneA, PhoneB>>, 1, Len(a))}

CommandWords ==
    {"hello", "add", "change", "phone", "all", "add-birthday",
     "show-birthday", "birthdays", "frobnicate"}

SessionStart == MkDate(2024, 6, 10)

\* main up to the first prompt: the book is what load_data returns.
InitSession ==
    /\ disk = None
    /\ book = load_data(disk)
    /\ today = SessionStart
    /\ elapsed = 0
    /\ running = TRUE
    /\ out = [cmd |-> "start", exc |-> "none", ret |-> Chars("Welcome to the assistant bot!")]
    /\ inserted = <<>>

\* An empty line: the prompt is repeated.
EmptyLine ==
    /\ running
    /\ out' = [cmd |-> "", exc |-> "none", ret |-> Chars("Please enter the command:")]
    /\ UNCHANGED <<book, disk, today, elapsed, running, inserted>>

\* close or exit: the book is saved and the loop ends.
Close ==
    /\ running
    /\ \E word \in {"close", "exit", "Exit"} :
          LET p == parse_input(<<word>>) IN
          /\ p.command \in {"close", "exit"}
          /\ disk' = save_data(book)
          /\ running' = FALSE
          /\ out' = [cmd |-> p.command, exc |-> "none", ret |-> Chars("Good bye!")]
    /\ UNCHANGED <<book, today, elapsed, inserted>>

\* The end of a turn of the loop: r is what the handler returned or raised.
Printed(command, r, most) ==
    /\ WithinBounds(r.data, most)
    /\ book' = r.data
    /\ inserted' = History(inserted, r.data)
    /\ running' = (r.exc = "none")
    /\ out' = [cmd |-> command, exc |-> r.exc, ret |-> r.ret]

\* Lines 218-255 for a parsed line p that is neither close nor exit.
Dispatched(p, most) ==
    /\ p.command \notin {"close", "exit"}
    /\ Printed(p.command, Dispatch(p.command, p.args, book, today), most)

\* One turn of main's loop for a line that is neither close nor exit: the
\* command runs to its end and its result is printed; an exception that
\* leaves the handler ends main.
RunCommand(words, most) ==
    /\ running
    /\ \E word \in words : \E args \in ArgsFor(word) :
          Dispatched(parse_input(<<word>> \o args), most)
    /\ UNCHANGED <<disk, today, elapsed>>

Command == RunCommand(CommandWords, MaxSessionPhones)

\* Midnight passes.
DayPasses ==
    /\ elapsed < MaxDayPasses
    /\ elapsed' = elapsed + 1
    /\ today' = PlusDays(today, 1)
    /\ out' = [cmd |-> "midnight", exc |-> "none"]
    /\ UNCHANGED <<book, disk, running, inserted>>

Next == EmptyLine \/ Close \/ Command

Spec == InitSession /\ [][Next]_vars

\* ----------------------------------------------------- calls on one Record

RecordPhones ==
    {PhoneA, PhoneB, PhoneShort, PhoneLong, PhoneLetter, PhoneNewline,
     PhoneArabic}

\* A book that holds one record, Record("Ann"), with no phones yet.
InitRecord ==
    /\ disk = None
    /\ book = add_record(<<>>, Record(Ann, <<>>).rec)
    /\ today = SessionStart
    /\ elapsed = 0
    /\ running = TRUE
    /\ out = [cmd |-> "Record", exc |-> "none"]
    /\ inserted = <<Ann>>

\* The record at entry i is now r.rec, and the call is noted.
RecordCalled(i, r, noted) ==
    /\ book' = Mutate(book, book[i].rec, r.rec)
    /\ out' = noted
    /\ UNCHANGED <<disk, today, elapsed, running, inserted>>

AddPhoneDone(i, phone, r) ==
    /\ Len(r.rec.phones) <= MaxPhones
    /\ RecordCalled(i, r, [cmd |-> "add_phone", exc |-> r.exc, phone |-> phone])

\* record.add_phone(phone)
CallAddPhone ==
    \E i \in 1..Len(book) : \E phone \in RecordPhones :
        AddPhoneDone(i, phone, add_phone(book[i].rec, phone))

\* record.find_phone(phone)
CallFindPhone ==
    \E i \in 1..Len(book) : \E phone \in RecordPhones :
        /\ out' = [cmd |-> "find_phone", exc |-> "none", phone |-> phone,
                   ret |-> find_phone(book[i].rec, phone)]
        /\ UNCHANGED <<book, disk, today, elapsed, running, inserted>>

RemovePhoneDone(i, phone, r) ==
    RecordCalled(i, r, [cmd |-> "remove_phone", exc |-> "none",
                        phone |-> phone, ret |-> r.ret])

\* record.remove_phone(phone)
CallRemovePhone ==
    \E i \in 1..Len(book) : \E phone \in RecordPhones :
        RemovePhoneDone(i, phone, remove_phone(book[i].rec, phone))

EditPhoneDone(i, old_phone, new_phone, r) ==
    RecordCalled(i, r, [cmd |-> "edit_phone", exc |-> r.exc,
                        new |-> new_phone, old |-> old_phone])

\* record.edit_phone(old_phone, new_phone)
CallEditPhone ==
    \E i \in 1..Len(book) : \E old_phone \in RecordPhones, new_phone \in RecordPhones :
        EditPhoneDone(i, old_phone, new_phone,
                      edit_phone(book[i].rec, old_phone, new_phone))

NextRecord == CallAddPhone \/ CallFindPhone \/ CallRemovePhone \/ CallEditPhone

SpecRecord == InitRecord /\ [][NextRecord]_vars

\* ------------------------------------------------------ calls on the book

\* A record straight from its constructor, given phone when it is not empty.
with_phone(made, phone) ==
    IF made.exc # "none" \/ phone = <<>> THEN made
    ELSE add_phone(made.rec, phone)

AddRecordDone(added) ==
    /\ book' = IF added.exc = "none" THEN add_record(book, added.rec) ELSE book
    /\ inserted' = History(inserted, book')
    /\ out' = IF added.exc = "none"
              THEN [cmd |-> "add_record", exc |-> "none", rec |-> added.rec]
              ELSE [cmd |-> "add_record", exc |-> added.exc]
    /\ UNCHANGED <<disk, today, elapsed, running>>

\* book.add_record(record) for a record built by Record(name, birthday) and,
\* when phone is not empty, given that phone; a constructor or add_phone that
\* raises leaves no record to add.
AddRecordOf(names, dates, phones) ==
    \E name \in names, birthday \in dates, phone \in phones :
        AddRecordDone(with_phone(Record(name, birthday), phone))

DeleteDone(name, r) ==
    /\ book' = r.data
    /\ inserted' = History(inserted, r.data)
    /\ out' = [cmd |-> "delete", exc |-> "none", name |-> name, ret |-> r.ret]
    /\ UNCHANGED <<disk, today, elapsed, running>>

\* book.delete(name)
DeleteOf(names) == \E name \in names : DeleteDone(name, delete(book, name))

\* book.find(name)
FindOf(names) ==
    \E name \in names :
        /\ out' = [cmd |-> "find", exc |-> "none", name |-> name,
                   ret |-> find(book, name)]
        /\ UNCHANGED <<book, disk, today, elapsed, running, inserted>>

QueryDone(days, r) ==
    /\ out' = IF r.exc = "none"
              THEN [cmd |-> "get_upcoming_birthdays", days |-> days,
                    exc |-> "none", ret |-> r.ret]
              ELSE [cmd |-> "get_upcoming_birthdays", days |-> days,
                    exc |-> r.exc]
    /\ UNCHANGED <<book, disk, today, elapsed, running, inserted>>

\* book.get_upcoming_birthdays(days)
QueryOf(horizons) ==
    \E days \in horizons :
        QueryDone(days, get_upcoming_birthdays(book, today, days))

DirectoryNames == Names \cup {<<>>}
DirectoryDates == {<<>>, DateJune12, DateFeb31}
DirectoryPhones == {<<>>, PhoneA}

\* AddressBook(): an empty book.
InitDirectory ==
    /\ disk = None
    /\ book = <<>>
    /\ today = SessionStart
    /\ elapsed = 0
    /\ running = TRUE
    /\ out = [cmd |-> "AddressBook", exc |-> "none"]
    /\ inserted = <<>>

CallAddRecord == AddRecordOf(DirectoryNames, DirectoryDates, DirectoryPhones)

CallDelete == DeleteOf(Names)

CallFind == FindOf(Names)

CallQuery == QueryOf({DefaultDays})

MutatingCommand ==
    RunCommand({"add", "change", "add-birthday", "all"}, MaxSessionPhones)

NextDirectory ==
    CallAddRecord \/ CallDelete \/ CallFind \/ CallQuery \/ MutatingCommand

SpecDirectory == InitDirectory /\ [][NextDirectory]_vars

\* --------------------------------------------------- the birthday window

\* The longest horizon the query is asked for.
MaxHorizon == 8

DateJune15 == <<"1", "5", ".", "0", "6", ".", "1", "9", "9", "0">>
DateJune16 == <<"1", "6", ".", "0", "6", ".", "1", "9", "8", "8">>
DateJan2 == <<"0", "2", ".", "0", "1", ".", "1", "9", "8", "5">>
DateMarch1 == <<"1", ".", "3", ".", "1", "9", "9", "9">>

BirthdayDates ==
    {DateLeapDay, DateJune12, DateJune15, DateJune16, DateJan2, DateMarch1}

\* Days on which a run starts: a Monday in June, the end of a leap year and
\* of the year before it, and late February of a leap and of a common year.
StartDays ==
    {MkDate(2024, 6, 10), MkDate(2024, 12, 28), MkDate(2023, 12, 30),
     MkDate(2024, 2, 28), MkDate(2023, 2, 27)}

InitBirthdays ==
    /\ disk = None
    /\ book = <<>>
    /\ today \in StartDays
    /\ elapsed = 0
    /\ running = TRUE
    /\ out = [cmd |-> "AddressBook", exc |-> "none"]
    /\ inserted = <<>>

AddWithBirthday == AddRecordOf(Names, BirthdayDates \cup {<<>>}, {<<>>})

Query == QueryOf(0..MaxHorizon)

BirthdaysCommand == RunCommand({"birthdays"}, MaxSessionPhones)

NextBirthdays == AddWithBirthday \/ Query \/ BirthdaysCommand \/ DayPasses

SpecBirthdays == InitBirthdays /\ [][NextBirthdays]_vars

\* ================================================================ claims

\* A string of exactly ten ASCII digits.
TenDigits(p) == Len(p) = 10 /\ AllIn(p, AsciiDigit)

Contains(s, x) == \E i \in 1..Len(s) : s[i] = x

Count(s, x) == Cardinality({i \in 1..Len(s) : s[i] = x})

\* after is before without its first element equal to x.
FirstDropped(before, after, x) ==
    \E k \in 1..Len(before) :
        /\ before[k] = x
        /\ \A j \in 1..(k - 1) : before[j] # x
        /\ Len(after) = Len(before) - 1
        /\ \A j \in 1..(k - 1) : after[j] = before[j]
        /\ \A j \in k..Len(after) : after[j] = before[j + 1]

\* The messages a command returns in place of its success message.
ErrorMessages ==
    {Chars("Give me name and phone please."), Chars("Contact doesn't exist."),
     Chars("Enter the argument for the command"), Chars("Invalid contact.")}

\* ---- C1
\* C1 (as claimed): when add-contact, change-phone or add-birthday returns an
\* error message, the book after the command is the book before it.
C1_FailedCommandLeavesBook ==
    [][(/\ out'.cmd \in {"add", "change", "add-birthday"}
        /\ out'.ret \in ErrorMessages)
       => book' = book]_vars

\* ---- C2
\* C2 (as claimed): after edit_phone(old, new) on a record that holds old, with
\* new ten digits, find_phone(old) is None, find_phone(new) is a phone and the
\* record holds as many phones as before.
C2_EditReplacesOld ==
    [][(/\ out'.cmd = "edit_phone"
        /\ Contains(book[1].rec.phones, out'.old)
        /\ TenDigits(out'.new))
       => /\ out'.exc = "none"
          /\ find_phone(book'[1].rec, out'.old) = None
          /\ find_phone(book'[1].rec, out'.new) # None
          /\ Len(book'[1].rec.phones) = Len(book[1].rec.phones)]_vars

\* C2 (amended): after such an edit_phone, find_phone(new) is a phone and the
\* count is unchanged; find_phone(old) is None exactly when old differs from
\* new and the record held old once.
C2_EditReplacesFirstOld ==
    [][(/\ out'.cmd = "edit_phone"
        /\ Contains(book[1].rec.phones, out'.old)
        /\ TenDigits(out'.new))
       => /\ out'.exc = "none"
          /\ (find_phone(book'[1].rec, out'.old) = None)
               <=> (out'.old # out'.new /\ Count(book[1].rec.phones, out'.old) = 1)
          /\ find_phone(book'[1].rec, out'.new) # None
          /\ Len(book'[1].rec.phones) = Len(book[1].rec.phones)]_vars

\* An edit_phone that returned while the record held old twice: old is still
\* found, beside new.
C2_Witness ==
    /\ out.cmd = "edit_phone"
    /\ out.exc = "none"
    /\ TenDigits(out.new)
    /\ out.old # out.new
    /\ find_phone(book[1].rec, out.old) # None
    /\ find_phone(book[1].rec, out.new) # None

\* ---- C3
\* C3 (as claimed): after remove_phone(p), find_phone(p) is None; only the
\* first stored phone equal to p is removed, and the call returns TRUE iff a
\* phone was removed.
C3_RemoveThenFindNone ==
    [][out'.cmd = "remove_phone"
       => /\ find_phone(book'[1].rec, out'.phone) = None
          /\ out'.ret = Contains(book[1].rec.phones, out'.phone)
          /\ IF out'.ret
             THEN FirstDropped(book[1].rec.phones, book'[1].rec.phones, out'.phone)
             ELSE book'[1].rec.phones = book[1].rec.phones]_vars

\* C3 (amended): remove_phone(p) removes only the first stored phone equal to
\* p and returns TRUE iff it removed one; find_phone(p) is None afterwards
\* exactly when the record held p at most once.
C3_RemoveFirstOnly ==
    [][out'.cmd = "remove_phone"
       => /\ (find_phone(book'[1].rec, out'.phone) = None)
               <=> (Count(book[1].rec.phones, out'.phone) <= 1)
          /\ out'.ret = Contains(book[1].rec.phones, out'.phone)
          /\ IF out'.ret
             THEN FirstDropped(book[1].rec.phones, book'[1].rec.phones, out'.phone)
             ELSE book'[1].rec.phones = book[1].rec.phones]_vars

\* A remove_phone that removed a phone the record still holds a copy of.
C3_Witness ==
    /\ out.cmd = "remove_phone"
    /\ out.ret
    /\ find_phone(book[1].rec, out.phone) # None

\* ---- C6
\* C6 (as claimed): edit_phone(old, new) raises whenever old is not in the
\* record or new is not ten digits, and an edit_phone that raised left the
\* phone sequence as it was.
C6_EditFailsAndKeeps ==
    [][out'.cmd = "edit_phone"
       => /\ (~Contains(book[1].rec.phones, out'.old) \/ ~TenDigits(out'.new))
               => out'.exc # "none"
          /\ out'.exc # "none"
               => book'[1].rec.phones = book[1].rec.phones]_vars

\* ---- C7
\* C7: every record is stored under its own name; find(name) returns None or
\* a record named name, and right after delete(name) find(name) is None.
C7_NameIsKey ==
    /\ \A i \in 1..Len(book) : book[i].rec.name = book[i].key
    /\ out.cmd = "find" => (out.ret = None \/ out.ret.name = out.name)
    /\ out.cmd = "delete" => find(book, out.name) = None

\* find returned a record of a book of two.
C7_Witness ==
    /\ Len(book) = 2
    /\ out.cmd = "find"
    /\ out.ret # None

\* ---- C8
\* One turn of the loop, as C8 has it.
C8_Step ==
    /\ out'.cmd \notin {"close", "exit"}
         => running' /\ out'.exc = "none" /\ out'.ret # <<>>
    /\ ~running' => out'.cmd \in {"close", "exit"}

\* C8: a command other than close or exit leaves the loop running with a
\* message printed, whatever its arguments; the loop ends only on close or
\* exit, and while it runs it takes a next command.
C8_LoopGoesOn == [][C8_Step]_vars /\ [](running => ENABLED Command)

\* A handler raised (show-birthday for a contact without one) and the loop
\* printed the message and went on.
C8_Witness ==
    /\ running
    /\ out.cmd = "show-birthday"
    /\ out.ret = Chars("Invalid contact.")
    /\ book # <<>>

\* ---- C10
\* The lines of list-all, for the book's records in history order.
ListingOf(hist) ==
    Join([i \in 1..Len(hist) |-> record_str(find(book, hist[i]))], <<"\n">>)

\* What C10 says of a state of the book.
C10_Listing ==
    /\ Keys(book) = inserted
    /\ (out.cmd = "all" /\ book # <<>>) => out.ret = ListingOf(inserted)
    /\ (out.cmd = "get_upcoming_birthdays" /\ out.exc = "none")
         => [i \in 1..Len(out.ret) |-> out.ret[i].name]
              = SelectSeq2(inserted, {out.ret[i].name : i \in 1..Len(out.ret)})
    /\ (out.cmd = "add_record" /\ out.exc = "none")
         => find(book, out.rec.name) = out.rec

\* What C10 says of add_record and delete.
C10_Step ==
    /\ (out'.cmd = "add_record" /\ out'.exc = "none")
         => Keys(book') = IF HasKey(book, out'.rec.name) THEN Keys(book)
                          ELSE Append(Keys(book), out'.rec.name)
    /\ (out'.cmd = "delete" /\ out'.ret)
         => Keys(book') = SelectSeq(Keys(book), LAMBDA k : k # out'.name)

\* C10: the book is iterated in the order its names were inserted: list-all
\* and the query's entries follow it, add_record for a present name replaces
\* the record where it stands, and a name added after its delete comes last.
C10_InsertionOrder == []C10_Listing /\ [][C10_Step]_vars

\* The query returned two entries from a book whose second name came first
\* in the alphabet's order.
C10_Witness ==
    /\ inserted = <<Bob, Ann>>
    /\ out.cmd = "get_upcoming_birthdays"
    /\ out.exc = "none"
    /\ Len(out.ret) = 2

\* ---- C4, C5, C9

\* The date a stored birthday names.
BirthDate(rec) == strptime(rec.birthday.value).date

\* The day and month of rec's birthday exist in today's year and, when that
\* date is before today, in the year after it too.
CandidateExists(rec) ==
    /\ ValidDate(today.year, BirthDate(rec).month, BirthDate(rec).day)
    /\ ToOrdinal(MkDate(today.year, BirthDate(rec).month, BirthDate(rec).day))
         < ToOrdinal(today)
         => ValidDate(today.year + 1, BirthDate(rec).month, BirthDate(rec).day)

\* The candidate of the claims: the birthday's day and month in today's year,
\* or in the following year when that date is before today.
Candidate(rec) ==
    IF ToOrdinal(MkDate(today.year, BirthDate(rec).month, BirthDate(rec).day))
         < ToOrdinal(today)
    THEN MkDate(today.year + 1, BirthDate(rec).month, BirthDate(rec).day)
    ELSE MkDate(today.year, BirthDate(rec).month, BirthDate(rec).day)

InWindow(rec, days) ==
    /\ 0 <= ToOrdinal(Candidate(rec)) - ToOrdinal(today)
    /\ ToOrdinal(Candidate(rec)) - ToOrdinal(today) <= days

Emitted(name) ==
    /\ out.exc = "none"
    /\ \E k \in 1..Len(out.ret) : out.ret[k].name = name

\* C4 (as claimed): the query emits an entry for a record with a birthday iff
\* its candidate is at most horizon_days after today; records without a
\* birthday are never emitted.
C4_EmittedIffInWindow ==
    out.cmd = "get_upcoming_birthdays"
      => \A i \in 1..Len(book) :
            IF book[i].rec.birthday = None THEN ~Emitted(book[i].key)
            ELSE CandidateExists(book[i].rec)
                   => (Emitted(book[i].key) <=> InWindow(book[i].rec, out.days))

\* C4 (amended): when every birthday's candidate exists the query returns and
\* emits an entry for exactly the records with a birthday whose candidate is
\* at most horizon_days after today; when some birthday's candidate does not
\* exist the query raises and emits nothing.
C4_EmittedIffInWindowOrRaises ==
    out.cmd = "get_upcoming_birthdays"
      => IF \E i \in 1..Len(book) :
               book[i].rec.birthday # None /\ ~CandidateExists(book[i].rec)
         THEN out.exc # "none"
         ELSE /\ out.exc = "none"
              /\ \A i \in 1..Len(book) :
                    Emitted(book[i].key) <=>
                        /\ book[i].rec.birthday # None
                        /\ InWindow(book[i].rec, out.days)
              /\ \A k \in 1..Len(out.ret) : HasKey(book, out.ret[k].name)

\* The query returned an entry for one record and none for another that has
\* a birthday too.
C4_Witness ==
    /\ out.cmd = "get_upcoming_birthdays"
    /\ out.exc = "none"
    /\ \E i, j \in 1..Len(book) :
          /\ Emitted(book[i].key)
          /\ book[j].rec.birthday # None
          /\ ~Emitted(book[j].key)

\* The date an entry reports, read back from YYYY-MM-DD.
Reported(entry) ==
    MkDate(IntOf(Split(entry.birthday, "-")[1]),
           IntOf(Split(entry.birthday, "-")[2]),
           IntOf(Split(entry.birthday, "-")[3]))

WeekdayOfOrdinal(n) == (n + 6) % 7

\* C5: an entry reports its candidate moved two days on from a Saturday, one
\* day on from a Sunday and not at all otherwise; the reported date is no
\* Saturday or Sunday and lies from today to today + horizon_days + 2.
C5_WeekendShift ==
    (out.cmd = "get_upcoming_birthdays" /\ out.exc = "none")
      => \A k \in 1..Len(out.ret) :
            /\ ToOrdinal(Reported(out.ret[k]))
                 - ToOrdinal(Candidate(find(book, out.ret[k].name)))
                 = CASE WeekdayOfOrdinal(ToOrdinal(Candidate(find(book, out.ret[k].name)))) = 5 -> 2
                     [] WeekdayOfOrdinal(ToOrdinal(Candidate(find(book, out.ret[k].name)))) = 6 -> 1
                     [] OTHER -> 0
            /\ WeekdayOfOrdinal(ToOrdinal(Reported(out.ret[k]))) < 5
            /\ ToOrdinal(today) <= ToOrdinal(Reported(out.ret[k]))
            /\ ToOrdinal(Reported(out.ret[k])) <= ToOrdinal(today) + out.days + 2
            /\ ValidDate(Reported(out.ret[k]).year, Reported(out.ret[k]).month,
                         Reported(out.ret[k]).day)

\* An entry whose candidate fell on a Saturday or Sunday, reported on a later
\* day.
C5_Witness ==
    /\ out.cmd = "get_upcoming_birthdays"
    /\ out.exc = "none"
    /\ \E k \in 1..Len(out.ret) :
          Reported(out.ret[k]) # Candidate(find(book, out.ret[k].name))

\* The year a 29 February candidate must be built in: today's, or the next
\* when 29 February is already past.
LeapCandidateYear ==
    IF today.month > 2 \/ (today.month = 2 /\ today.day > 29)
    THEN today.year + 1 ELSE today.year

\* Some record's birthday is 29 February and its candidate year is no leap
\* year.
LeapDayTrouble ==
    \E i \in 1..Len(book) :
        /\ book[i].rec.birthday # None
        /\ BirthDate(book[i].rec).month = 2
        /\ BirthDate(book[i].rec).day = 29
        /\ ~IsLeap(LeapCandidateYear)

\* C9: with such a record in the book the query raises and emits no entry,
\* and the birthdays command returns an error message instead of the list.
C9_LeapDayFails ==
    LeapDayTrouble
      => /\ out.cmd = "get_upcoming_birthdays" => out.exc = "ValueError"
         /\ out.cmd = "birthdays" => out.ret \in ErrorMessages

\* The birthdays command answered with an error while another record's
\* birthday was within the week.
C9_Witness ==
    /\ LeapDayTrouble
    /\ out.cmd = "birthdays"
    /\ out.ret \in ErrorMessages
    /\ \E i \in 1..Len(book) :
          /\ book[i].rec.birthday # None
          /\ CandidateExists(book[i].rec)
          /\ InWindow(book[i].rec, DefaultDays)

====
